---- MODULE Spec2Model ----
(***************************************************************************)
(* Model of the routing backend of daadiity/LostorFound:                   *)
(*   - GraphService   (backend/src/services/graphService.js)               *)
(*   - DijkstraService(backend/src/services/dijkstraService.js)            *)
(*   - RouteController, distance utilities, constants (unnamed/part_000)   *)
(*   - OSMService     (backend/src/services/osmService.js)                 *)
(*                                                                         *)
(* Geometry.  All points lie on one meridian and a coordinate is a         *)
(* latitude in microdegrees, an integer.  One microdegree of latitude is   *)
(* 0.1112 m, and a distance is kept in that unit, so calculateDistance is  *)
(* the absolute difference.  On integers "closer than 0.001 km (8.99       *)
(* units)" is "closer than 9 units" and "closer than 0.01 km (89.9        *)
(* units)" is "closer than 90 units".  Way coordinates are multiples of    *)
(* 6, so that the mean of a merge cluster (2 or 3 members on a line) is an *)
(* integer and the division of mergeNodeCluster is exact.  Road-class      *)
(* multipliers are kept in tenths (motorway 1.0 -> 10).                    *)
(*                                                                         *)
(* A JavaScript Map or Set is a sequence in insertion order: iteration     *)
(* order decides which node is reused, which node seeds a cluster and      *)
(* which duplicate edge survives.                                          *)
(***************************************************************************)
EXTENDS Integers, Sequences, FiniteSets, TLC

VARIABLES
    gs,            \* the GraphService instance: graph.nodes, graph.edges, counters
    osmData,       \* the ways handed to buildGraph so far (osmData.elements)
    nodesToMerge,  \* mergeIntersections: clusters still to be merged
    bpc,           \* position inside buildGraph
    dj,            \* one findShortestPath call: the DijkstraService instance and
                   \* the locals of dijkstra()
    graphCache,    \* RouteController.graphCache: key -> {graph, timestamp}
    heap,          \* the graph objects the builds allocated; a graph is held
                   \* by reference, the reference is its index here
    clock,         \* Date.now(), in milliseconds
    ticks,         \* how often the clock advanced
    rq,            \* the calculateRoute calls, by request
    running,       \* the request whose task the event loop runs; 0 for none
    upstream       \* number of requests sent to the Overpass API

buildVars == <<gs, osmData, nodesToMerge, bpc>>

cacheVars == <<graphCache, heap, clock, ticks, rq, running, upstream>>

vars == <<gs, osmData, nodesToMerge, bpc, dj,
          graphCache, heap, clock, ticks, rq, running, upstream>>

-----------------------------------------------------------------------------
(* Bounds and input domains *)

\* total number of geometry points of the ways handed to one buildGraph call
MaxPoints == 4

\* coordinates a way's geometry may use: 0/6, 6/12 and 36/42 snap to one
\* node (closer than the tolerance); 0/12, 12/24 and 24/36 are merged by the
\* intersection pass (closer than twice the tolerance); 0/24/42 stay apart
Coordinates == {0, 6, 12, 24, 36, 42}

\* values of tags.highway in the input
RoadTypes == {"motorway", "residential"}

\* number of two-point ways handed to buildGraph when the ingestion is
\* followed point by point
MaxWays == 3

\* coordinates of those ways: 6 lies within the tolerance of 0 and of 12,
\* which are not within the tolerance of each other
IngestCoordinates == {0, 6, 12, 24}

\* total number of geometry points of the road network a search runs on
MaxSearchPoints == 5

\* coordinates of the road networks a search runs on
SearchCoordinates == {0, 12, 24, 42}

\* source and destination of a search: 3 lies next to 0, 18 lies halfway
\* between 12 and 24, 120 and 230 lie beyond the end of every road (and have
\* the same nearest node); 3 and 18 are closer than 10 m
Endpoints == {<<3, 120>>, <<120, 3>>, <<18, 120>>, <<120, 230>>, <<3, 18>>}

\* total number of geometry points of the road network of a search that is
\* followed to its end
MaxFairSearchPoints == 4

\* number of calculateRoute calls
MaxRequests == 2

\* how often the clock advances
MaxTicks == 2

\* an endpoint of a request body: a point on the meridian of longitude 0
Point(lat) == [missing |-> FALSE, lat |-> lat, lng |-> 0]

\* an endpoint the request body does not hold
Missing == [missing |-> TRUE, lat |-> 0, lng |-> 0]

\* source and destination of a request: 3, 120 and 9990 lie in the key cell
\* from 0 to 10000, 10120 lies in the next cell; 3 to 3 is closer than 10 m;
\* the last three hold no destination, a latitude beyond 90 degrees and a
\* longitude beyond 180 degrees
RequestEndpoints ==
    {<<Point(3), Point(120)>>, <<Point(9990), Point(3)>>,
     <<Point(3), Point(10120)>>, <<Point(3), Point(3)>>,
     <<Point(3), Missing>>,
     <<Point(3), Point(90000120)>>,
     <<[missing |-> FALSE, lat |-> 3, lng |-> -180000001], Point(120)>>}

\* the way lists the Overpass API answers with: two roads that meet, with
\* two points close enough for the intersection pass to merge them
UpstreamElements ==
    {<<[highway |-> "residential", geometry |-> <<0, 12, 24>>],
       [highway |-> "motorway", geometry |-> <<12, 42>>]>>}

\* the outcomes of axios.post: a 200 with or without data.elements, a
\* connection timeout (ECONNABORTED), an error status
UpstreamResponses ==
    {[kind |-> "ok", status |-> 200, elements |-> el] :
        el \in UpstreamElements \cup {<<>>}}
    \cup {[kind |-> "noElements", status |-> 200, elements |-> <<>>],
          [kind |-> "timeout", status |-> 0, elements |-> <<>>],
          [kind |-> "status", status |-> 429, elements |-> <<>>],
          [kind |-> "status", status |-> 503, elements |-> <<>>]}

-----------------------------------------------------------------------------
(* Constants of the program *)

INTERSECTION_TOLERANCE == 9

\* JavaScript's Infinity: larger than every distance and every path weight
Infinity == 1000000

ROAD_TYPE_WEIGHTS ==
    [motorway |-> 10, trunk |-> 12, primary |-> 15, secondary |-> 20,
     tertiary |-> 25, residential |-> 30, unclassified |-> 35, default |-> 20]

AVERAGE_SPEEDS ==
    [motorway |-> 90, trunk |-> 70, primary |-> 60, secondary |-> 50,
     tertiary |-> 40, residential |-> 30, unclassified |-> 25, default |-> 40]

\* An error message is the sequence of the phrases it is made of, so that
\* message.includes(phrase) and the template `prefix: ${message}` keep their
\* meaning.
NoNearbyIntersections ==
    <<"Could not find nearby intersections", " for start or end point">>
NoPathExists == <<"No path exists", " between the specified points">>
NoRouteFound == <<"No route found", " between the specified points">>
ReconstructionFailed == <<"Failed to reconstruct complete path">>
NoRoadData == <<"No road data found", " in the specified area">>
InvalidResponse == <<"Invalid response from Overpass API">>
CannotReadElements == <<"Cannot read properties of undefined (reading 'length')">>
RequestTimedOut == <<"OSM API request ", "timed out", ". Try a smaller area.">>
RateLimitExceeded == <<"OSM API rate limit exceeded. Please try again later.">>
ServerError == <<"OSM API server error. Please try again later.">>
RequestFailedWithStatus == <<"Request failed with status code">>
FailedToFetch(message) == <<"Failed to fetch road data: ">> \o message
NoError == <<>>

-----------------------------------------------------------------------------
(* Sequence helpers (Map/Set/Array primitives) *)

Range(s) == {s[i] : i \in 1..Len(s)}

\* Array.prototype.includes / Set.has on an insertion-ordered collection
Includes(s, x) == \E i \in 1..Len(s) : s[i] = x

\* Set.add: append unless present
SetAdd(s, x) == IF Includes(s, x) THEN s ELSE Append(s, x)

RECURSIVE SetAddAll(_, _)
SetAddAll(s, xs) ==
    IF xs = <<>> THEN s ELSE SetAddAll(SetAdd(s, Head(xs)), Tail(xs))

\* Map.has / Map.get on a sequence of records with an id field
Has(m, id) == \E i \in 1..Len(m) : m[i].id = id

Get(m, id) == m[CHOOSE i \in 1..Len(m) : m[i].id = id]

\* Map.set on an existing key keeps its place; a new key goes last
Put(m, rec) ==
    IF Has(m, rec.id)
    THEN [i \in 1..Len(m) |-> IF m[i].id = rec.id THEN rec ELSE m[i]]
    ELSE Append(m, rec)

\* Map.delete
Delete(m, id) == SelectSeq(m, LAMBDA r : r.id # id)

\* Math.min and Math.max
Min2(a, b) == IF a <= b THEN a ELSE b
Max2(a, b) == IF a >= b THEN a ELSE b

-----------------------------------------------------------------------------
(* utils/distance.js *)

calculateDistance(lat1, lat2) == IF lat1 >= lat2 THEN lat1 - lat2 ELSE lat2 - lat1

-----------------------------------------------------------------------------
(* RouteController.validateCoordinates *)

\* 90 degrees of latitude, in microdegrees
MaxLatitude == 90000000

\* 0.01 km, the least distance between the endpoints of a request: 89.9 units
MinRouteDistance == 90

\* 180 degrees of longitude, in microdegrees
MaxLongitude == 180000000

\* mutant of validateCoordinates: endpoints of any distance are accepted
validateCoordinatesAnyDistance(source, destination) ==
    /\ ~(source.missing \/ destination.missing)
    /\ ~(source.lat < -MaxLatitude \/ source.lat > MaxLatitude
          \/ destination.lat < -MaxLatitude \/ destination.lat > MaxLatitude)
    /\ ~(source.lng < -MaxLongitude \/ source.lng > MaxLongitude
          \/ destination.lng < -MaxLongitude \/ destination.lng > MaxLongitude)

\* the endpoints are points of one meridian wherever the distance is taken
validateCoordinates(source, destination) ==
    /\ ~(source.missing \/ destination.missing)
    /\ ~(source.lat < -MaxLatitude \/ source.lat > MaxLatitude
          \/ destination.lat < -MaxLatitude \/ destination.lat > MaxLatitude)
    /\ ~(source.lng < -MaxLongitude \/ source.lng > MaxLongitude
          \/ destination.lng < -MaxLongitude \/ destination.lng > MaxLongitude)
    /\ ~(calculateDistance(source.lat, destination.lat) < MinRouteDistance)

-----------------------------------------------------------------------------
(* GraphService *)

\* edge_<k>_forward and edge_<k>_backward
ForwardId(k) == 2 * k
BackwardId(k) == 2 * k + 1

NewGraphService ==
    [nodes |-> <<>>, edges |-> <<>>, nodeIdCounter |-> 0, edgeIdCounter |-> 0]

\* mutant of FindExisting: a node is reused only for a point at its very
\* coordinates
RECURSIVE FindExistingSamePoint(_, _, _)
FindExistingSamePoint(nodes, i, lat) ==
    IF i > Len(nodes) THEN -1
    ELSE IF calculateDistance(lat, nodes[i].lat) = 0
         THEN nodes[i].id
         ELSE FindExistingSamePoint(nodes, i + 1, lat)

\* the first node, in Map order, closer than the tolerance; -1 when none
RECURSIVE FindExisting(_, _, _)
FindExisting(nodes, i, lat) ==
    IF i > Len(nodes) THEN -1
    ELSE IF calculateDistance(lat, nodes[i].lat) < INTERSECTION_TOLERANCE
         THEN nodes[i].id
         ELSE FindExisting(nodes, i + 1, lat)

\* returns the service state and the node id
findOrCreateNode(st, lat) ==
    LET found == FindExisting(st.nodes, 1, lat) IN
    IF found # -1
    THEN [st |-> st, nodeId |-> found]
    ELSE [st |-> [st EXCEPT
                    !.nodes = Append(@, [id |-> st.nodeIdCounter, lat |-> lat,
                                         edges |-> <<>>]),
                    !.nodeIdCounter = @ + 1],
          nodeId |-> st.nodeIdCounter]

createDirectionalEdge(st, edgeId, fromNodeId, toNodeId, weight, distance, roadType) ==
    LET fromNode == Get(st.nodes, fromNodeId) IN
    [st EXCEPT
       !.edges = Put(@, [id |-> edgeId, from |-> fromNodeId, to |-> toNodeId,
                         weight |-> weight, distance |-> distance,
                         roadType |-> roadType]),
       !.nodes = Put(@, [fromNode EXCEPT !.edges = Append(@, edgeId)])]

RoadWeight(roadType) ==
    IF roadType \in DOMAIN ROAD_TYPE_WEIGHTS
    THEN ROAD_TYPE_WEIGHTS[roadType] ELSE ROAD_TYPE_WEIGHTS.default

createEdge(st, fromNodeId, toNodeId, roadType) ==
    IF fromNodeId = toNodeId THEN st
    ELSE IF ~Has(st.nodes, fromNodeId) \/ ~Has(st.nodes, toNodeId) THEN st
    ELSE
      LET distance == calculateDistance(Get(st.nodes, fromNodeId).lat,
                                        Get(st.nodes, toNodeId).lat)
          weight   == distance * RoadWeight(roadType)
          k        == st.edgeIdCounter
          st1      == [st EXCEPT !.edgeIdCounter = @ + 1]
          st2      == createDirectionalEdge(st1, ForwardId(k), fromNodeId, toNodeId,
                                            weight, distance, roadType)
      IN createDirectionalEdge(st2, BackwardId(k), toNodeId, fromNodeId,
                               weight, distance, roadType)

\* geometry.forEach of processWay; previousNodeId = -1 stands for null
RECURSIVE WalkGeometry(_, _, _, _)
WalkGeometry(st, geometry, previousNodeId, roadType) ==
    IF geometry = <<>> THEN st
    ELSE
      LET r   == findOrCreateNode(st, Head(geometry))
          st1 == IF previousNodeId # -1
                 THEN createEdge(r.st, previousNodeId, r.nodeId, roadType)
                 ELSE r.st
      IN WalkGeometry(st1, Tail(geometry), r.nodeId, roadType)

processWay(st, way) ==
    IF Len(way.geometry) < 2 THEN st
    ELSE WalkGeometry(st, way.geometry, -1, way.highway)

\* inner loop of mergeIntersections: the unprocessed nodes close to the seed
RECURSIVE GrowCluster(_, _, _, _, _)
GrowCluster(nodes, seed, j, cluster, processed) ==
    IF j > Len(nodes) THEN [cluster |-> cluster, processed |-> processed]
    ELSE IF nodes[j].id \in processed
         THEN GrowCluster(nodes, seed, j + 1, cluster, processed)
    ELSE IF calculateDistance(seed.lat, nodes[j].lat) < INTERSECTION_TOLERANCE * 2
         THEN GrowCluster(nodes, seed, j + 1, Append(cluster, nodes[j].id),
                          processed \cup {nodes[j].id})
         ELSE GrowCluster(nodes, seed, j + 1, cluster, processed)

\* outer loop of mergeIntersections: the clusters of two or more nodes
RECURSIVE FindClusters(_, _, _, _)
FindClusters(nodes, i, processed, found) ==
    IF i > Len(nodes) THEN found
    ELSE IF nodes[i].id \in processed
         THEN FindClusters(nodes, i + 1, processed, found)
    ELSE
      LET r == GrowCluster(nodes, nodes[i], 1, <<nodes[i].id>>,
                           processed \cup {nodes[i].id})
      IN FindClusters(nodes, i + 1, r.processed,
                      IF Len(r.cluster) > 1 THEN Append(found, r.cluster) ELSE found)

\* mutant of EdgesToRemove: self-loops are not flagged
RECURSIVE EdgesToRemoveDuplicatesOnly(_, _, _, _)
EdgesToRemoveDuplicatesOnly(edges, i, signatures, flagged) ==
    IF i > Len(edges) THEN flagged
    ELSE IF <<edges[i].from, edges[i].to>> \in signatures
         THEN EdgesToRemoveDuplicatesOnly(edges, i + 1, signatures,
                                          flagged \cup {edges[i].id})
         ELSE EdgesToRemoveDuplicatesOnly(edges, i + 1,
                 signatures \cup {<<edges[i].from, edges[i].to>>}, flagged)

\* the edges removeDuplicateEdges flags: self-loops and repeated (from, to)
RECURSIVE EdgesToRemove(_, _, _, _)
EdgesToRemove(edges, i, signatures, flagged) ==
    IF i > Len(edges) THEN flagged
    ELSE IF edges[i].from = edges[i].to
         THEN EdgesToRemove(edges, i + 1, signatures, flagged \cup {edges[i].id})
    ELSE IF <<edges[i].from, edges[i].to>> \in signatures
         THEN EdgesToRemove(edges, i + 1, signatures, flagged \cup {edges[i].id})
         ELSE EdgesToRemove(edges, i + 1,
                            signatures \cup {<<edges[i].from, edges[i].to>>}, flagged)

removeDuplicateEdges(st) ==
    LET flagged == EdgesToRemove(st.edges, 1, {}, {})
        kept    == SelectSeq(st.edges, LAMBDA e : e.id \notin flagged)
    IN [st EXCEPT
          !.edges = kept,
          !.nodes = [i \in 1..Len(st.nodes) |->
                       [st.nodes[i] EXCEPT
                          !.edges = SelectSeq(@, LAMBDA id : Has(kept, id))]]]

\* first loop of mergeNodeCluster: the members' edge ids, in Set order
RECURSIVE CollectEdges(_, _, _)
CollectEdges(nodes, nodeIds, allEdges) ==
    IF nodeIds = <<>> THEN allEdges
    ELSE CollectEdges(nodes, Tail(nodeIds),
                      SetAddAll(allEdges, Get(nodes, Head(nodeIds)).edges))

RECURSIVE SumLat(_, _)
SumLat(nodes, nodeIds) ==
    IF nodeIds = <<>> THEN 0
    ELSE Get(nodes, Head(nodeIds)).lat + SumLat(nodes, Tail(nodeIds))

\* mutant of RedirectEdges: edge.from is left as it was
RedirectEdgesToOnly(edges, allEdges, nodeIds, primaryNodeId) ==
    [i \in 1..Len(edges) |->
       IF Includes(allEdges, edges[i].id)
       THEN [edges[i] EXCEPT
               !.to = IF Includes(nodeIds, @) THEN primaryNodeId ELSE @]
       ELSE edges[i]]

\* allEdges.forEach of mergeNodeCluster: only the edges found in the members'
\* own edge lists are redirected to the primary node
RedirectEdges(edges, allEdges, nodeIds, primaryNodeId) ==
    [i \in 1..Len(edges) |->
       IF Includes(allEdges, edges[i].id)
       THEN [edges[i] EXCEPT
               !.from = IF Includes(nodeIds, @) THEN primaryNodeId ELSE @,
               !.to   = IF Includes(nodeIds, @) THEN primaryNodeId ELSE @]
       ELSE edges[i]]

\* mergeNodeCluster up to the removal of the other nodes
mergeNodeClusterTables(st, nodeIds) ==
    LET allEdges      == CollectEdges(st.nodes, nodeIds, <<>>)
        avgLat        == SumLat(st.nodes, nodeIds) \div Len(nodeIds)
        primaryNodeId == nodeIds[1]
        primaryNode   == [Get(st.nodes, primaryNodeId) EXCEPT
                            !.lat = avgLat, !.edges = allEdges]
        others        == Range(Tail(nodeIds))
    IN [st EXCEPT
          !.nodes = SelectSeq(Put(@, primaryNode), LAMBDA n : n.id \notin others),
          !.edges = RedirectEdges(@, allEdges, nodeIds, primaryNodeId)]

mergeNodeCluster(st, nodeIds) ==
    IF Len(nodeIds) < 2 THEN st
    ELSE removeDuplicateEdges(mergeNodeClusterTables(st, nodeIds))

RECURSIVE MergeClusters(_, _)
MergeClusters(st, clusters) ==
    IF clusters = <<>> THEN st
    ELSE MergeClusters(mergeNodeCluster(st, Head(clusters)), Tail(clusters))

mergeIntersections(st) ==
    MergeClusters(st, FindClusters(st.nodes, 1, {}, <<>>))

RECURSIVE ProcessWays(_, _)
ProcessWays(st, elements) ==
    IF elements = <<>> THEN st
    ELSE ProcessWays(processWay(st, Head(elements)), Tail(elements))

\* buildGraph as a function of the way list (a fresh GraphService per build)
buildGraph(elements) ==
    LET st == mergeIntersections(ProcessWays(NewGraphService, elements))
    IN [nodes |-> st.nodes, edges |-> st.edges]

-----------------------------------------------------------------------------
(* utils/distance.js: findNearestNode *)

\* the first node, in Map order, of strictly smallest distance; -1 for null
RECURSIVE NearestFrom(_, _, _, _, _)
NearestFrom(nodes, i, lat, nearestNode, minDistance) ==
    IF i > Len(nodes) THEN nearestNode
    ELSE LET distance == calculateDistance(lat, nodes[i].lat) IN
         IF distance < minDistance
         THEN NearestFrom(nodes, i + 1, lat, nodes[i].id, distance)
         ELSE NearestFrom(nodes, i + 1, lat, nearestNode, minDistance)

findNearestNode(nodes, lat) == NearestFrom(nodes, 1, lat, -1, Infinity)

-----------------------------------------------------------------------------
(* DijkstraService *)

\* no findShortestPath call in progress
NoSearch == [pc |-> "idle"]

\* mutant of RelaxEdges: a node that has a previous node keeps it when a
\* shorter way to it is found
RECURSIVE RelaxEdgesKeepPrevious(_, _, _, _, _, _)
RelaxEdgesKeepPrevious(graph, edgeIds, currentNodeId, currentDistance, visited, dp) ==
    IF edgeIds = <<>> THEN dp
    ELSE
      LET edge == IF Has(graph.edges, Head(edgeIds))
                  THEN Get(graph.edges, Head(edgeIds))
                  ELSE [to |-> -1, weight |-> 0]
          better == /\ edge.to \notin visited
                    /\ edge.to \in DOMAIN dp.distances
                    /\ currentDistance + edge.weight < dp.distances[edge.to]
      IN RelaxEdgesKeepPrevious(graph, Tail(edgeIds), currentNodeId,
            currentDistance, visited,
            IF better
            THEN [distances |-> [dp.distances EXCEPT
                                   ![edge.to] = currentDistance + edge.weight],
                  previous  |-> dp.previous @@ (edge.to :> currentNodeId)]
            ELSE dp)

\* for (const edgeId of currentNode.edges): relaxation of the neighbours.
\* dp holds the distances and previous maps.  distances.get of a node that
\* is not in the node table is undefined, and the comparison with it false.
RECURSIVE RelaxEdges(_, _, _, _, _, _)
RelaxEdges(graph, edgeIds, currentNodeId, currentDistance, visited, dp) ==
    IF edgeIds = <<>> THEN dp
    ELSE
      LET edgeId == Head(edgeIds)
          rest   == Tail(edgeIds)
      IN IF ~Has(graph.edges, edgeId)
         THEN RelaxEdges(graph, rest, currentNodeId, currentDistance, visited, dp)
         ELSE
           LET edge == Get(graph.edges, edgeId) IN
           IF edge.to \in visited
           THEN RelaxEdges(graph, rest, currentNodeId, currentDistance, visited, dp)
           ELSE IF edge.to \notin DOMAIN dp.distances
           THEN RelaxEdges(graph, rest, currentNodeId, currentDistance, visited, dp)
           ELSE IF currentDistance + edge.weight < dp.distances[edge.to]
           THEN RelaxEdges(graph, rest, currentNodeId, currentDistance, visited,
                  [distances |-> [dp.distances EXCEPT
                                    ![edge.to] = currentDistance + edge.weight],
                   previous  |-> (edge.to :> currentNodeId) @@ dp.previous])
           ELSE RelaxEdges(graph, rest, currentNodeId, currentDistance, visited, dp)

\* the first unvisited node, in Set order, of strictly smallest finite
\* distance; -1 for null
RECURSIVE MinFrom(_, _, _, _, _)
MinFrom(unvisited, i, distances, minNodeId, minDistance) ==
    IF i > Len(unvisited) THEN minNodeId
    ELSE IF distances[unvisited[i]] < minDistance
         THEN MinFrom(unvisited, i + 1, distances, unvisited[i],
                      distances[unvisited[i]])
         ELSE MinFrom(unvisited, i + 1, distances, minNodeId, minDistance)

\* mutant of findMinimumDistanceNode: the first unvisited node of finite
\* distance, whether or not it is the nearest
RECURSIVE FirstFinite(_, _, _)
FirstFinite(unvisited, i, distances) ==
    IF i > Len(unvisited) THEN -1
    ELSE IF distances[unvisited[i]] < Infinity THEN unvisited[i]
    ELSE FirstFinite(unvisited, i + 1, distances)

findFirstReachableNode(unvisited, distances) == FirstFinite(unvisited, 1, distances)

findMinimumDistanceNode(unvisited, distances) ==
    MinFrom(unvisited, 1, distances, -1, Infinity)

\* mutant of WalkBack: the walk stops at the start node before it is put in
\* front of the path
RECURSIVE WalkBackBeforeStart(_, _, _, _)
WalkBackBeforeStart(previous, startNodeId, currentNodeId, path) ==
    IF currentNodeId = startNodeId /\ path # <<>> THEN path
    ELSE IF currentNodeId \notin DOMAIN previous THEN <<currentNodeId>> \o path
    ELSE WalkBackBeforeStart(previous, startNodeId, previous[currentNodeId],
                             <<currentNodeId>> \o path)

\* the while loop of reconstructPath: walks previous back from currentNodeId
RECURSIVE WalkBack(_, _, _, _)
WalkBack(previous, startNodeId, currentNodeId, path) ==
    LET path1 == <<currentNodeId>> \o path IN
    IF currentNodeId = startNodeId THEN path1
    ELSE IF currentNodeId \notin DOMAIN previous THEN path1
    ELSE WalkBack(previous, startNodeId, previous[currentNodeId], path1)

\* the path, or <<>> when the check at the end throws
reconstructPath(previous, startNodeId, endNodeId) ==
    LET path == WalkBack(previous, startNodeId, endNodeId, <<>>) IN
    IF path[1] # startNodeId \/ path[Len(path)] # endNodeId
    THEN [error |-> ReconstructionFailed, path |-> <<>>]
    ELSE [error |-> NoError, path |-> path]

\* nodePath.forEach of convertPathToCoordinates
RECURSIVE InteriorCoordinates(_, _, _)
InteriorCoordinates(graph, nodePath, index) ==
    IF index > Len(nodePath) THEN <<>>
    ELSE
      LET isFirst == index = 1
          isLast  == index = Len(nodePath)
          rest    == InteriorCoordinates(graph, nodePath, index + 1)
      IN IF Has(graph.nodes, nodePath[index]) /\ ~isFirst /\ ~isLast
         THEN <<Get(graph.nodes, nodePath[index]).lat>> \o rest
         ELSE rest

\* mutant of convertPathToCoordinates: the path is the coordinates of the
\* nodes, the snapped endpoints included
convertPathToNodeCoordinates(graph, nodePath, originalSource, originalDestination) ==
    [i \in 1..Len(nodePath) |-> Get(graph.nodes, nodePath[i]).lat]

convertPathToCoordinates(graph, nodePath, originalSource, originalDestination) ==
    <<originalSource>> \o InteriorCoordinates(graph, nodePath, 1)
                       \o <<originalDestination>>

RECURSIVE calculatePathDistance(_)
calculatePathDistance(coordinatePath) ==
    IF Len(coordinatePath) < 2 THEN 0
    ELSE calculateDistance(coordinatePath[1], coordinatePath[2])
           + calculatePathDistance(Tail(coordinatePath))

Speed(roadType) ==
    IF roadType \in DOMAIN AVERAGE_SPEEDS
    THEN AVERAGE_SPEEDS[roadType] ELSE AVERAGE_SPEEDS.default

\* the first edge of the node's list that leads to nextNodeId; -1 when none
RECURSIVE FirstEdgeTo(_, _, _)
FirstEdgeTo(graph, edgeIds, nextNodeId) ==
    IF edgeIds = <<>> THEN -1
    ELSE IF Has(graph.edges, Head(edgeIds))
            /\ Get(graph.edges, Head(edgeIds)).to = nextNodeId
         THEN Head(edgeIds)
         ELSE FirstEdgeTo(graph, Tail(edgeIds), nextNodeId)

\* a time in hours is kept as an integer: hours * 10000 * SpeedLcm
SpeedLcm == 12600

\* the loop of estimateTravelTime: the total time of nodePath[i..]
RECURSIVE TotalTime(_, _, _)
TotalTime(graph, nodePath, i) ==
    IF i >= Len(nodePath) THEN 0
    ELSE
      LET rest == TotalTime(graph, nodePath, i + 1) IN
      IF ~Has(graph.nodes, nodePath[i]) THEN rest
      ELSE
        LET currentNode == Get(graph.nodes, nodePath[i])
            edgeId      == FirstEdgeTo(graph, currentNode.edges, nodePath[i + 1])
        IN IF edgeId # -1
           THEN LET edge == Get(graph.edges, edgeId) IN
                edge.distance * (SpeedLcm \div Speed(edge.roadType)) + rest
           ELSE IF Has(graph.nodes, nodePath[i + 1])
           THEN calculateDistance(currentNode.lat,
                                  Get(graph.nodes, nodePath[i + 1]).lat)
                  * (SpeedLcm \div Speed("default")) + rest
           ELSE rest

\* mutant of estimateTravelTime: minutes, rounded up to one at the least
estimateTravelTimeAtLeastOne(graph, nodePath) ==
    Max2(1, (2 * 60 * TotalTime(graph, nodePath, 1) + 10000 * SpeedLcm)
              \div (2 * 10000 * SpeedLcm))

\* Math.round(totalTime * 60): minutes, rounded half up
estimateTravelTime(graph, nodePath) ==
    (2 * 60 * TotalTime(graph, nodePath, 1) + 10000 * SpeedLcm)
      \div (2 * 10000 * SpeedLcm)

NodeIdsOf(nodes) == [i \in 1..Len(nodes) |-> nodes[i].id]

\* mutant of LoopCondition: the safety limit is half the number of nodes
LoopConditionHalfLimit(d) ==
    /\ Len(d.unvisited) > 0
    /\ d.currentNodeId # -1
    /\ d.iterations * 2 < Len(d.graph.nodes)

\* while (unvisited.size > 0 && currentNodeId && iterations < maxIterations)
LoopCondition(d) ==
    /\ Len(d.unvisited) > 0
    /\ d.currentNodeId # -1
    /\ d.iterations < Len(d.graph.nodes) * 2


-----------------------------------------------------------------------------
(* RouteController: the graph cache *)

\* this.cacheTimeout = 10 * 60 * 1000 milliseconds
cacheTimeout == 10 * 60 * 1000

\* precision = 100 per degree: one key cell is 0.01 degree, in microdegrees
KeyCell == 10000

Floor(x, cell) == (x \div cell) * cell
Ceil(x, cell) == -(((-x) \div cell) * cell)

\* mutant of createCacheKey: the key is made of the coordinates as given
createCacheKeyAsGiven(source, destination) == <<source, 0, destination, 0>>

\* `${roundedSouth},${roundedWest},${roundedNorth},${roundedEast}`; every
\* longitude is 0
createCacheKey(source, destination) ==
    <<Floor(Min2(source, destination), KeyCell), 0,
      Ceil(Max2(source, destination), KeyCell), 0>>

\* the entries cleanCache deletes are those older than the timeout
cleanCache(cache, now) ==
    SelectSeq(cache, LAMBDA c : ~(now - c.timestamp > cacheTimeout))

\* mutant of CacheHit: an entry aged exactly the timeout is still served
CacheHitInclusive(cache, cacheKey, now) ==
    /\ Has(cache, cacheKey)
    /\ now - Get(cache, cacheKey).timestamp <= cacheTimeout

\* mutant of CacheHit: the age test is turned around
CacheHitWhenStale(cache, cacheKey, now) ==
    /\ Has(cache, cacheKey)
    /\ now - Get(cache, cacheKey).timestamp > cacheTimeout

\* the cache probe of getOrBuildGraph: the entry that is served, if any
CacheHit(cache, cacheKey, now) ==
    /\ Has(cache, cacheKey)
    /\ now - Get(cache, cacheKey).timestamp < cacheTimeout

\* mutant of InsertAndClean: a slot that holds an entry keeps it
InsertIfAbsent(cache, cacheKey, graphRef, now) ==
    IF Has(cache, cacheKey) THEN cleanCache(cache, now)
    ELSE cleanCache(Append(cache, [id |-> cacheKey, graph |-> graphRef,
                                   timestamp |-> now]), now)

\* graphCache.set followed by cleanCache
InsertAndClean(cache, cacheKey, graphRef, now) ==
    cleanCache(Put(cache, [id |-> cacheKey, graph |-> graphRef, timestamp |-> now]),
               now)

\* no request has arrived and the cache is empty
CacheIdle ==
    /\ graphCache = <<>>
    /\ heap = <<>>
    /\ clock = 0
    /\ ticks = 0
    /\ rq = <<>>
    /\ running = 0
    /\ upstream = 0

-----------------------------------------------------------------------------
(* buildGraph, step by step *)

RECURSIVE SeqsOver(_, _)
SeqsOver(S, n) ==
    IF n = 0 THEN {<<>>}
    ELSE {Append(s, x) : s \in SeqsOver(S, n - 1), x \in S}

\* the ways of exactly n points over the coordinates C
WaysOver(C, n) ==
    {[highway |-> t, geometry |-> g] : t \in RoadTypes, g \in SeqsOver(C, n)}

WaysOfLen(n) == WaysOver(Coordinates, n)

RECURSIVE PointsOf(_)
PointsOf(elements) ==
    IF elements = <<>> THEN 0
    ELSE Len(Head(elements).geometry) + PointsOf(Tail(elements))

BuildInit ==
    /\ gs = NewGraphService
    /\ osmData = <<>>
    /\ nodesToMerge = <<>>
    /\ bpc = "processWays"
    /\ dj = NoSearch
    /\ CacheIdle

\* one callback of osmData.elements.forEach
ProcessWay ==
    /\ bpc = "processWays"
    /\ \E n \in 1..(MaxPoints - PointsOf(osmData)) : \E way \in WaysOfLen(n) :
         /\ gs' = processWay(gs, way)
         /\ osmData' = Append(osmData, way)
    /\ UNCHANGED <<nodesToMerge, bpc, dj>>
    /\ UNCHANGED cacheVars

\* mergeIntersections up to the cluster list
FindNearbyNodes ==
    /\ bpc = "processWays"
    /\ nodesToMerge' = FindClusters(gs.nodes, 1, {}, <<>>)
    /\ bpc' = "mergeClusters"
    /\ UNCHANGED <<gs, osmData, dj>>
    /\ UNCHANGED cacheVars

\* one callback of nodesToMerge.forEach
MergeNodeCluster ==
    /\ bpc = "mergeClusters"
    /\ nodesToMerge # <<>>
    /\ gs' = mergeNodeCluster(gs, Head(nodesToMerge))
    /\ nodesToMerge' = Tail(nodesToMerge)
    /\ UNCHANGED <<osmData, bpc, dj>>
    /\ UNCHANGED cacheVars

\* buildGraph returns this.graph
BuildGraphReturn ==
    /\ bpc = "mergeClusters"
    /\ nodesToMerge = <<>>
    /\ bpc' = "built"
    /\ UNCHANGED <<gs, osmData, nodesToMerge, dj>>
    /\ UNCHANGED cacheVars

\* a later call of buildGraph on the same GraphService: the two Maps of
\* this.graph, the object the earlier call returned, are cleared
BuildGraphAgain ==
    /\ bpc = "built"
    /\ gs' = NewGraphService
    /\ osmData' = <<>>
    /\ bpc' = "processWays"
    /\ UNCHANGED <<nodesToMerge, dj>>
    /\ UNCHANGED cacheVars

BuildNext ==
    \/ ProcessWay \/ FindNearbyNodes \/ MergeNodeCluster \/ BuildGraphReturn
    \/ BuildGraphAgain

SpecBuild == BuildInit /\ [][BuildNext]_vars

\* the ways of two points over the ingestion coordinates
RoadSegments ==
    {[highway |-> "residential", geometry |-> <<a, b>>] :
        a \in IngestCoordinates, b \in IngestCoordinates}

\* one callback of osmData.elements.forEach, on a way of two points
IngestSegment ==
    /\ bpc = "processWays"
    /\ Len(osmData) < MaxWays
    /\ \E way \in RoadSegments :
         /\ gs' = processWay(gs, way)
         /\ osmData' = Append(osmData, way)
    /\ UNCHANGED <<nodesToMerge, bpc, dj>>
    /\ UNCHANGED cacheVars

IngestNext == IngestSegment \/ FindNearbyNodes

\* buildGraph from its first way to the start of the merge pass
SpecIngest == BuildInit /\ [][IngestNext]_vars

-----------------------------------------------------------------------------
(* findShortestPath, step by step.  Each step is a function of the record   *)
(* that holds the DijkstraService instance and the locals of dijkstra().   *)

\* Step 1 of findShortestPath and the initialisation of dijkstra()
StartSearch(graph, source, destination) ==
    LET sourceNodeId == findNearestNode(graph.nodes, source)
        destNodeId   == findNearestNode(graph.nodes, destination)
        ids          == NodeIdsOf(graph.nodes)
    IN IF sourceNodeId = -1 \/ destNodeId = -1
       THEN [pc |-> "failed", graph |-> graph, source |-> source,
             destination |-> destination,
             error |-> NoNearbyIntersections]
       ELSE [pc |-> "dijkstra", graph |-> graph, source |-> source,
             destination |-> destination,
             startNodeId |-> sourceNodeId, endNodeId |-> destNodeId,
             distances |-> [n \in Range(ids) |->
                              IF n = sourceNodeId THEN 0 ELSE Infinity],
             previous |-> <<>>,
             unvisited |-> ids,
             visited |-> {},
             currentNodeId |-> sourceNodeId,
             iterations |-> 0,
             broke |-> FALSE]

\* mutant of IterationStep: the extracted node stays in the unvisited set
IterationStepKeepsUnvisited(d) ==
    LET cur     == d.currentNodeId
        visited == d.visited \cup {cur}
    IN IF cur = d.endNodeId
       THEN [d EXCEPT !.iterations = @ + 1, !.visited = visited, !.broke = TRUE]
       ELSE
         LET dp == IF Has(d.graph.nodes, cur)
                   THEN RelaxEdges(d.graph, Get(d.graph.nodes, cur).edges, cur,
                                   d.distances[cur], visited,
                                   [distances |-> d.distances,
                                    previous |-> d.previous])
                   ELSE [distances |-> d.distances, previous |-> d.previous]
         IN [d EXCEPT !.iterations = @ + 1, !.visited = visited,
                      !.distances = dp.distances,
                      !.previous = dp.previous,
                      !.currentNodeId =
                         findMinimumDistanceNode(d.unvisited, dp.distances)]

\* one iteration of the main loop of dijkstra()
IterationStep(d) ==
    LET cur       == d.currentNodeId
        visited   == d.visited \cup {cur}
        unvisited == SelectSeq(d.unvisited, LAMBDA n : n # cur)
    IN IF cur = d.endNodeId
       THEN [d EXCEPT !.iterations = @ + 1, !.visited = visited,
                      !.unvisited = unvisited, !.broke = TRUE]
       ELSE
         LET dp == IF Has(d.graph.nodes, cur)
                   THEN RelaxEdges(d.graph, Get(d.graph.nodes, cur).edges, cur,
                                   d.distances[cur], visited,
                                   [distances |-> d.distances,
                                    previous |-> d.previous])
                   ELSE [distances |-> d.distances, previous |-> d.previous]
         IN [d EXCEPT !.iterations = @ + 1, !.visited = visited,
                      !.unvisited = unvisited,
                      !.distances = dp.distances,
                      !.previous = dp.previous,
                      !.currentNodeId =
                         findMinimumDistanceNode(unvisited, dp.distances)]

\* after the loop: dijkstra() throws or returns path and totalWeight
ReturnStep(d) ==
    IF d.endNodeId \notin d.visited
    THEN [d EXCEPT !.pc = "failed"] @@
         [error |-> NoPathExists]
    ELSE LET r == reconstructPath(d.previous, d.startNodeId, d.endNodeId) IN
         IF r.error # NoError
         THEN [d EXCEPT !.pc = "failed"] @@ [error |-> r.error]
         ELSE [d EXCEPT !.pc = "pathFound"] @@
              [path |-> r.path, totalWeight |-> d.distances[d.endNodeId]]

\* Steps 3 and 4 of findShortestPath and its return value
ShapeStep(d) ==
    IF Len(d.path) = 0
    THEN [d EXCEPT !.pc = "failed"] @@
         [error |-> NoRouteFound]
    ELSE LET coordinatePath ==
               convertPathToCoordinates(d.graph, d.path, d.source, d.destination)
         IN [d EXCEPT !.pc = "done"] @@
            [coordinatePath |-> coordinatePath,
             distance |-> calculatePathDistance(coordinatePath),
             duration |-> estimateTravelTime(d.graph, d.path),
             nodeCount |-> Len(d.path)]

\* the ways to cut n geometry points into ways of two or more points: the
\* lengths of the ways, in order
RECURSIVE WayLengths(_)
WayLengths(n) ==
    IF n = 0 THEN {<<>>}
    ELSE UNION {{<<k>> \o rest : rest \in WayLengths(n - k)} : k \in 2..n}

\* the way list that holds the points in ways of the given lengths and types
RECURSIVE WayList(_, _, _)
WayList(points, lengths, types) ==
    IF lengths = <<>> THEN <<>>
    ELSE <<[highway |-> Head(types),
            geometry |-> SubSeq(points, 1, Head(lengths))]>>
         \o WayList(SubSeq(points, Head(lengths) + 1, Len(points)),
                    Tail(lengths), Tail(types))

\* the search is called on the graph built from a road network of at most
\* maxPoints points, with endpoints that validateCoordinates accepted
SearchInitOver(maxPoints) ==
    /\ \E n \in 0..maxPoints :
         \E points \in SeqsOver(SearchCoordinates, n), lengths \in WayLengths(n) :
            \E types \in SeqsOver(RoadTypes, Len(lengths)) :
               osmData = WayList(points, lengths, types)
    /\ gs = mergeIntersections(ProcessWays(NewGraphService, osmData))
    /\ nodesToMerge = <<>>
    /\ bpc = "built"
    /\ \E body \in Endpoints :
         /\ validateCoordinates(Point(body[1]), Point(body[2]))
         /\ dj = [pc |-> "start", graph |-> [nodes |-> gs.nodes, edges |-> gs.edges],
                  source |-> body[1], destination |-> body[2]]
    /\ CacheIdle

SearchInit == SearchInitOver(MaxSearchPoints)

FindNearestNodes ==
    /\ dj.pc = "start"
    /\ dj' = StartSearch(dj.graph, dj.source, dj.destination)
    /\ UNCHANGED <<buildVars, cacheVars>>

DijkstraIteration ==
    /\ dj.pc = "dijkstra"
    /\ ~dj.broke
    /\ LoopCondition(dj)
    /\ dj' = IterationStep(dj)
    /\ UNCHANGED <<buildVars, cacheVars>>

DijkstraReturn ==
    /\ dj.pc = "dijkstra"
    /\ ~(~dj.broke /\ LoopCondition(dj))
    /\ dj' = ReturnStep(dj)
    /\ UNCHANGED <<buildVars, cacheVars>>

ShapeResult ==
    /\ dj.pc = "pathFound"
    /\ dj' = ShapeStep(dj)
    /\ UNCHANGED <<buildVars, cacheVars>>

SearchNext == FindNearestNodes \/ DijkstraIteration \/ DijkstraReturn \/ ShapeResult

SpecSearch == SearchInit /\ [][SearchNext]_vars

\* findShortestPath has no await: once called it runs on until it returns
\* or throws
SpecSearchFair ==
    SearchInitOver(MaxFairSearchPoints) /\ [][SearchNext]_vars /\ WF_vars(SearchNext)

\* findShortestPath as a function: the record it ends with
RECURSIVE RunLoop(_)
RunLoop(d) ==
    IF ~d.broke /\ LoopCondition(d) THEN RunLoop(IterationStep(d)) ELSE d

findShortestPath(graph, source, destination) ==
    LET d0 == StartSearch(graph, source, destination) IN
    IF d0.pc = "failed" THEN d0
    ELSE LET d1 == ReturnStep(RunLoop(d0)) IN
         IF d1.pc = "failed" THEN d1 ELSE ShapeStep(d1)

-----------------------------------------------------------------------------
(* OSMService.calculateBoundingBox *)

\* padding = 0.01 degree, in microdegrees
Padding == 10000

\* the box of a request that has not called getRoadData
NoBox == [south |-> 0, west |-> 0, north |-> 0, east |-> 0]

\* mutant of calculateBoundingBox: the box of the two points, not padded
calculateBoundingBoxUnpadded(source, destination) ==
    [south |-> Min2(source.lat, destination.lat),
     west  |-> Min2(source.lng, destination.lng),
     north |-> Max2(source.lat, destination.lat),
     east  |-> Max2(source.lng, destination.lng)]

calculateBoundingBox(source, destination) ==
    [south |-> Min2(source.lat, destination.lat) - Padding,
     west  |-> Min2(source.lng, destination.lng) - Padding,
     north |-> Max2(source.lat, destination.lat) + Padding,
     east  |-> Max2(source.lng, destination.lng) + Padding]

-----------------------------------------------------------------------------
(* OSMService.getRoadData: what it makes of the upstream's answer *)

\* the error thrown inside the try block, NoError when it returns
ErrorInTry(response) ==
    IF response.kind = "timeout" THEN <<"timeout of 30000ms exceeded">>
    ELSE IF response.kind = "status" THEN RequestFailedWithStatus
    ELSE IF response.kind = "noElements" THEN CannotReadElements
    ELSE IF Len(response.elements) = 0 THEN NoRoadData
    ELSE NoError

\* mutant of getRoadData: an empty elements list is returned, not refused
getRoadDataUnchecked(response) ==
    IF response.kind = "ok"
    THEN [ok |-> TRUE, elements |-> response.elements, error |-> NoError]
    ELSE [ok |-> FALSE, elements |-> <<>>,
          error |-> IF response.kind = "timeout" THEN RequestTimedOut
                    ELSE IF response.kind = "status" /\ response.status = 429
                         THEN RateLimitExceeded
                    ELSE IF response.kind = "status" /\ response.status >= 500
                         THEN ServerError
                    ELSE FailedToFetch(ErrorInTry(response))]

getRoadData(response) ==
    LET thrown == ErrorInTry(response) IN
    IF thrown = NoError
    THEN [ok |-> TRUE, elements |-> response.elements, error |-> NoError]
    ELSE [ok |-> FALSE, elements |-> <<>>,
          error |-> IF response.kind = "timeout" THEN RequestTimedOut
                    ELSE IF response.kind = "status" /\ response.status = 429
                         THEN RateLimitExceeded
                    ELSE IF response.kind = "status" /\ response.status >= 500
                         THEN ServerError
                    ELSE FailedToFetch(thrown)]

-----------------------------------------------------------------------------
(* RouteController.calculateRoute, step by step.  A request runs as tasks   *)
(* of the event loop: from its arrival to the await of the upstream         *)
(* request, and from the upstream's answer to the response.  A task runs    *)
(* to completion; requests interleave between tasks only.                   *)

Requests == 1..MaxRequests

\* the clock advances by a millisecond or by a millisecond less than the
\* cache timeout
TickSteps == {1, cacheTimeout - 1}

\* the local `cached` of getOrBuildGraph when the key has no entry
NoEntry == [found |-> FALSE, graph |-> 0, timestamp |-> 0]

\* graphCache.get(cacheKey)
CacheGet(cache, cacheKey) ==
    IF Has(cache, cacheKey)
    THEN [found |-> TRUE, graph |-> Get(cache, cacheKey).graph,
          timestamp |-> Get(cache, cacheKey).timestamp]
    ELSE NoEntry

\* mutant of NewGraphObject: one GraphService, and so one graph object, is
\* shared by every build
SharedGraphObject(h) == 1

\* the reference of the graph object a new GraphService holds
NewGraphObject(h) == Len(h) + 1

\* the heap with the object of the given reference set to the given value
Store(h, ref, object) ==
    IF ref = Len(h) + 1 THEN Append(h, object) ELSE [h EXCEPT ![ref] = object]

NewRequest ==
    [pc |-> "idle", body |-> <<Missing, Missing>>, source |-> 0,
     destination |-> 0, cacheKey |-> <<>>, cached |-> NoEntry, bbox |-> NoBox,
     hit |-> FALSE, response |-> [kind |-> "none", status |-> 0, elements |-> <<>>],
     elements |-> <<>>, graph |-> 0, searched |-> 0, result |-> NoSearch,
     status |-> 0, error |-> NoError]

\* the catch block of calculateRoute: the status of the error response
ErrorStatus(message) ==
    IF Includes(message, "No road data found") THEN 404
    ELSE IF Includes(message, "Could not find nearby intersections") THEN 404
    ELSE IF Includes(message, "No route found") \/ Includes(message, "No path exists")
         THEN 404
    ELSE IF Includes(message, "timed out") THEN 408
    ELSE 500

\* the graph object behind a reference
GraphAt(h, ref) == [nodes |-> h[ref].nodes, edges |-> h[ref].edges]

\* what calculateRoute reads of the search's result
ResultOf(d) ==
    IF d.pc = "failed" THEN [ok |-> FALSE, error |-> d.error]
    ELSE [ok |-> TRUE, path |-> d.coordinatePath, distance |-> d.distance,
          duration |-> d.duration, totalWeight |-> d.totalWeight,
          nodePath |-> d.path, sourceNode |-> d.startNodeId,
          destinationNode |-> d.endNodeId]

CacheInit ==
    /\ gs = NewGraphService
    /\ osmData = <<>>
    /\ nodesToMerge = <<>>
    /\ bpc = "idle"
    /\ dj = NoSearch
    /\ graphCache = <<>>
    /\ heap = <<>>
    /\ clock = 0
    /\ ticks = 0
    /\ rq = [r \in Requests |-> NewRequest]
    /\ running = 0
    /\ upstream = 0

\* POST /api/route: the handler is called with source and destination
Arrive(r) ==
    /\ running = 0
    /\ rq[r].pc = "idle"
    /\ \A q \in Requests : q < r => rq[q].pc # "idle"
    /\ \E body \in RequestEndpoints :
         rq' = [rq EXCEPT ![r] = [@ EXCEPT !.pc = "validate", !.body = body,
                                           !.source = body[1].lat,
                                           !.destination = body[2].lat]]
    /\ running' = r
    /\ UNCHANGED <<buildVars, dj, graphCache, heap, clock, ticks, upstream>>

\* validateCoordinates and the 400 response
Validate(r) ==
    /\ running = r
    /\ rq[r].pc = "validate"
    /\ rq' = [rq EXCEPT ![r] =
                IF validateCoordinates(rq[r].body[1], rq[r].body[2])
                THEN [@ EXCEPT !.pc = "probe"]
                ELSE [@ EXCEPT !.pc = "respond", !.status = 400]]
    /\ UNCHANGED <<buildVars, dj, graphCache, heap, clock, ticks, running, upstream>>

\* getOrBuildGraph up to its return on a hit or to the await of getRoadData,
\* which sends the upstream request for the padded box of the two endpoints
Probe(r) ==
    /\ running = r
    /\ rq[r].pc = "probe"
    /\ LET cacheKey == createCacheKey(rq[r].source, rq[r].destination) IN
       IF CacheHit(graphCache, cacheKey, clock)
       THEN /\ rq' = [rq EXCEPT ![r] =
                        [@ EXCEPT !.pc = "search", !.cacheKey = cacheKey,
                                  !.cached = CacheGet(graphCache, cacheKey),
                                  !.hit = TRUE,
                                  !.graph = Get(graphCache, cacheKey).graph]]
            /\ UNCHANGED <<running, upstream>>
       ELSE /\ rq' = [rq EXCEPT ![r] =
                        [@ EXCEPT !.pc = "fetching", !.cacheKey = cacheKey,
                                  !.cached = CacheGet(graphCache, cacheKey),
                                  !.bbox = calculateBoundingBox(rq[r].body[1],
                                                                rq[r].body[2])]]
            /\ running' = 0
            /\ upstream' = upstream + 1
    /\ UNCHANGED <<buildVars, dj, graphCache, heap, clock, ticks>>

\* the upstream answers: getRoadData returns the ways or throws
FetchResponse(r) ==
    /\ running = 0
    /\ rq[r].pc = "fetching"
    /\ \E response \in UpstreamResponses :
         LET out == getRoadData(response) IN
         rq' = [rq EXCEPT ![r] =
                  IF out.ok
                  THEN [@ EXCEPT !.pc = "build", !.response = response,
                                 !.elements = out.elements]
                  ELSE [@ EXCEPT !.pc = "respond", !.response = response,
                                 !.error = out.error,
                                 !.status = ErrorStatus(out.error)]]
    /\ running' = r
    /\ UNCHANGED <<buildVars, dj, graphCache, heap, clock, ticks, upstream>>

\* mutant of GraphIngest: the search is started on the ingested ways, with
\* the merge pass and the cache insert left out
GraphIngestThenSearch(r) ==
    /\ running = r
    /\ rq[r].pc = "build"
    /\ heap' = Store(heap, NewGraphObject(heap),
                     ProcessWays(NewGraphService, rq[r].elements))
    /\ rq' = [rq EXCEPT ![r] = [@ EXCEPT !.pc = "search",
                                         !.graph = NewGraphObject(heap)]]
    /\ UNCHANGED <<buildVars, dj, graphCache, clock, ticks, running, upstream>>

\* mutant of CacheInsert: the task ends with the insert, and the search is
\* left to a later task
CacheInsertThenYield(r) ==
    /\ running = r
    /\ rq[r].pc = "insert"
    /\ graphCache' = InsertAndClean(graphCache, rq[r].cacheKey, rq[r].graph, clock)
    /\ rq' = [rq EXCEPT ![r] = [@ EXCEPT !.pc = "search"]]
    /\ running' = 0
    /\ UNCHANGED <<buildVars, dj, heap, clock, ticks, upstream>>

\* new GraphService() and the ingestion of the ways by buildGraph
GraphIngest(r) ==
    /\ running = r
    /\ rq[r].pc = "build"
    /\ heap' = Store(heap, NewGraphObject(heap),
                     ProcessWays(NewGraphService, rq[r].elements))
    /\ rq' = [rq EXCEPT ![r] = [@ EXCEPT !.pc = "merge",
                                         !.graph = NewGraphObject(heap)]]
    /\ UNCHANGED <<buildVars, dj, graphCache, clock, ticks, running, upstream>>

\* mergeIntersections, after which buildGraph returns the graph
GraphMerge(r) ==
    /\ running = r
    /\ rq[r].pc = "merge"
    /\ heap' = [heap EXCEPT ![rq[r].graph] = mergeIntersections(@)]
    /\ rq' = [rq EXCEPT ![r] = [@ EXCEPT !.pc = "insert"]]
    /\ UNCHANGED <<buildVars, dj, graphCache, clock, ticks, running, upstream>>

\* graphCache.set and cleanCache, after which getOrBuildGraph returns
CacheInsert(r) ==
    /\ running = r
    /\ rq[r].pc = "insert"
    /\ graphCache' = InsertAndClean(graphCache, rq[r].cacheKey, rq[r].graph, clock)
    /\ rq' = [rq EXCEPT ![r] = [@ EXCEPT !.pc = "search"]]
    /\ UNCHANGED <<buildVars, dj, heap, clock, ticks, running, upstream>>

\* new DijkstraService() and findShortestPath on the graph obtained
Search(r) ==
    /\ running = r
    /\ rq[r].pc = "search"
    /\ LET d == findShortestPath(GraphAt(heap, rq[r].graph), rq[r].source,
                                 rq[r].destination)
       IN rq' = [rq EXCEPT ![r] =
                   [@ EXCEPT !.pc = "respond", !.searched = rq[r].graph,
                             !.result = ResultOf(d),
                             !.error = IF d.pc = "failed" THEN d.error ELSE NoError,
                             !.status = IF d.pc = "failed" THEN ErrorStatus(d.error)
                                        ELSE 200]]
    /\ UNCHANGED <<buildVars, dj, graphCache, heap, clock, ticks, running, upstream>>

\* res.json or res.status(...).json: the task ends
Respond(r) ==
    /\ running = r
    /\ rq[r].pc = "respond"
    /\ rq' = [rq EXCEPT ![r] = [@ EXCEPT !.pc = "done"]]
    /\ running' = 0
    /\ UNCHANGED <<buildVars, dj, graphCache, heap, clock, ticks, upstream>>

\* time passes between two tasks
Tick ==
    /\ running = 0
    /\ ticks < MaxTicks
    /\ \E d \in TickSteps : clock' = clock + d
    /\ ticks' = ticks + 1
    /\ UNCHANGED <<buildVars, dj, graphCache, heap, rq, running, upstream>>

CacheNext ==
    \/ \E r \in Requests :
         \/ Arrive(r) \/ Validate(r) \/ Probe(r) \/ FetchResponse(r)
         \/ GraphIngest(r) \/ GraphMerge(r) \/ CacheInsert(r) \/ Search(r)
         \/ Respond(r)
    \/ Tick

SpecCache == CacheInit /\ [][CacheNext]_vars

-----------------------------------------------------------------------------
(* The search, on the graph it is given *)

SearchEnded == dj.pc \in {"failed", "pathFound", "done"} /\ "endNodeId" \in DOMAIN dj

\* every node id the graph mentions, deleted nodes included
Vertices(graph) ==
    Range(NodeIdsOf(graph.nodes))
      \cup {e.from : e \in Range(graph.edges)} \cup {e.to : e \in Range(graph.edges)}

\* Bellman-Ford over the edge table: the least weight of a directed path of
\* at most k edges from s to each vertex
RECURSIVE LeastWeights(_, _, _)
LeastWeights(graph, s, k) ==
    IF k = 0 THEN [v \in Vertices(graph) |-> IF v = s THEN 0 ELSE Infinity]
    ELSE
      LET prev == LeastWeights(graph, s, k - 1)
          reached == {x \in Range(graph.edges) : prev[x.from] < Infinity}
          via(v) == {prev[e.from] + e.weight : e \in {x \in reached : x.to = v}}
          Min(S) == CHOOSE x \in S : \A y \in S : x <= y
      IN [v \in DOMAIN prev |-> Min({prev[v]} \cup via(v))]

MinPathWeight(graph, s, t) ==
    LeastWeights(graph, s, Cardinality(Vertices(graph)))[t]

PathExists(graph, s, t) == MinPathWeight(graph, s, t) < Infinity

\* the kilometres of a node path, by the coordinates of its nodes
RECURSIVE NodePathLength(_, _)
NodePathLength(graph, path) ==
    IF Len(path) < 2 THEN 0
    ELSE calculateDistance(Get(graph.nodes, path[1]).lat, Get(graph.nodes, path[2]).lat)
           + NodePathLength(graph, Tail(path))

\* C3: when the search succeeds, totalWeight is the minimum over all directed
\* paths from the source node to the destination node of the sum of the
\* edge weights.
C3_TotalWeightIsMinimum ==
    (SearchEnded /\ dj.pc # "failed") =>
       dj.totalWeight = MinPathWeight(dj.graph, dj.startNodeId, dj.endNodeId)

\* a successful search that took a path of two or more edges although one
\* edge, shorter in kilometres and heavier, joins its two ends
C3_Witness ==
    /\ dj.pc = "done"
    /\ Len(dj.path) >= 3
    /\ \E e \in Range(dj.graph.edges) :
         /\ e.from = dj.startNodeId
         /\ e.to = dj.endNodeId
         /\ e.weight > dj.totalWeight
         /\ e.distance < NodePathLength(dj.graph, dj.path)

\* C7: the search fails with 'No path exists' exactly when the graph has no
\* directed path of edges from the source node to the destination node, and
\* it succeeds whenever there is one.
C7_UnreachableIffNoPath ==
    SearchEnded =>
      /\ (dj.pc = "failed") <=> ~PathExists(dj.graph, dj.startNodeId, dj.endNodeId)
      /\ (dj.pc = "failed") => dj.error = NoPathExists

\* a search between two nodes of a graph of several nodes and edges that
\* ended with 'No path exists'
C7_Witness ==
    /\ SearchEnded
    /\ dj.pc = "failed"
    /\ dj.error = NoPathExists
    /\ Len(dj.graph.nodes) >= 3
    /\ Len(dj.graph.edges) >= 2
    /\ dj.iterations >= 2

\* C8: the path of a successful response has at least 2 points, begins with
\* the caller's source, ends with the caller's destination, and holds in
\* between the coordinates of the interior nodes of the node path, in order.
C8_PathKeepsCallerEndpoints ==
    dj.pc = "done" =>
      LET cp == dj.coordinatePath
          k  == Len(dj.path)
      IN /\ Len(cp) >= 2
         /\ cp[1] = dj.source
         /\ cp[Len(cp)] = dj.destination
         /\ Len(cp) = IF k >= 2 THEN k ELSE 2
         /\ \A i \in 2..(k - 1) : cp[i] = Get(dj.graph.nodes, dj.path[i]).lat

\* a successful response over a node path with an interior node whose two
\* end nodes lie elsewhere than the caller's endpoints
C8_Witness ==
    /\ dj.pc = "done"
    /\ Len(dj.path) >= 3
    /\ dj.source # Get(dj.graph.nodes, dj.startNodeId).lat
    /\ dj.destination # Get(dj.graph.nodes, dj.endNodeId).lat

\* the sums of weights of the edges one can take along a node path, one
\* edge of the graph for each pair of consecutive nodes
RECURSIVE PathWeights(_, _)
PathWeights(graph, path) ==
    IF Len(path) <= 1 THEN {0}
    ELSE {e.weight + w :
            e \in {f \in Range(graph.edges) : f.from = path[1] /\ f.to = path[2]},
            w \in PathWeights(graph, Tail(path))}

\* C17: for every successful search, totalWeight is the sum, over the pairs
\* of consecutive nodes of the returned node path, of the weight of an edge
\* of the graph from the first node of the pair to the second.
C17_TotalWeightIsSumAlongPath ==
    dj.pc = "done" => dj.totalWeight \in PathWeights(dj.graph, dj.path)

\* a successful search over two or more edges whose path runs between two
\* nodes that two edges of different weight join
C17_Witness ==
    /\ dj.pc = "done"
    /\ Len(dj.path) >= 3
    /\ \E i \in 1..(Len(dj.path) - 1) : \E e, f \in Range(dj.graph.edges) :
         /\ e.from = dj.path[i] /\ e.to = dj.path[i + 1]
         /\ f.from = dj.path[i] /\ f.to = dj.path[i + 1]
         /\ e.weight # f.weight

-----------------------------------------------------------------------------
(* The search loop and the path it hands back *)

\* the loop of dijkstra() is running or has just been left
InLoop == dj.pc = "dijkstra"

\* every extraction takes one node out of the unvisited set, so that the
\* extractions never outnumber the nodes and stay below the safety limit
ExtractionsBounded ==
    InLoop =>
      /\ dj.iterations + Len(dj.unvisited) = Len(dj.graph.nodes)
      /\ dj.iterations <= Len(dj.graph.nodes)
      /\ dj.iterations < Len(dj.graph.nodes) * 2

\* the loop is never left because the safety limit was reached: it is left
\* by the break at the destination, or with nothing left to extract
LimitNeverEndsLoop ==
    (InLoop /\ ~(~dj.broke /\ LoopCondition(dj))) =>
       (dj.broke \/ Len(dj.unvisited) = 0 \/ dj.currentNodeId = -1)

\* the search loop ends in success or in 'No path exists'
LoopOutcomes ==
    SearchEnded => (dj.pc = "failed" => dj.error = NoPathExists)

\* C24: for every graph the search loop terminates, the number of node
\* extractions never exceeds twice the number of nodes (every extraction
\* removes one node from the unvisited set), the safety limit never ends
\* the loop, and the loop's only outcomes are success and 'No path exists'.
C24_SearchLoopTerminatesWithinBound ==
    /\ [](ExtractionsBounded /\ LimitNeverEndsLoop /\ LoopOutcomes)
    /\ <>(dj.pc \in {"failed", "done"})

\* the loop was left with every node of a graph of three or more nodes
\* extracted
C24_Witness ==
    /\ InLoop
    /\ Len(dj.graph.nodes) >= 3
    /\ dj.iterations = Len(dj.graph.nodes)
    /\ Len(dj.unvisited) = 0

\* the edges of the node's edge list that lead to the next node
EdgesBetween(graph, nodeId, nextNodeId) ==
    IF ~Has(graph.nodes, nodeId) THEN {}
    ELSE {e \in Range(graph.edges) :
            /\ Includes(Get(graph.nodes, nodeId).edges, e.id)
            /\ e.to = nextNodeId}

\* the time estimate finds no edge for some pair of the node path and falls
\* back on the distance between the two nodes
FallbackTaken(graph, path) ==
    \E i \in 1..(Len(path) - 1) :
       \/ ~Has(graph.nodes, path[i])
       \/ FirstEdgeTo(graph, Get(graph.nodes, path[i]).edges, path[i + 1]) = -1

\* the node path runs from the source node to the destination node, visits
\* no node twice, and each of its nodes has an edge to the next in its list
WellFormedPath(d, path) ==
    /\ path # <<>>
    /\ path[1] = d.startNodeId
    /\ path[Len(path)] = d.endNodeId
    /\ \A i, j \in 1..Len(path) : path[i] = path[j] => i = j
    /\ \A i \in 1..(Len(path) - 1) :
          EdgesBetween(d.graph, path[i], path[i + 1]) # {}

\* C25: whenever the search loop has finalized the destination, the
\* reconstruction yields a node path without repeated nodes from the source
\* node to the destination node in which every node has, in its edge list,
\* an edge to the next one; 'Failed to reconstruct complete path' is never
\* thrown and the time estimate never falls back on the node distance.
C25_ReconstructionYieldsEdgePath ==
    /\ (InLoop /\ dj.endNodeId \in dj.visited) =>
          LET r == reconstructPath(dj.previous, dj.startNodeId, dj.endNodeId)
          IN r.error = NoError /\ WellFormedPath(dj, r.path)
    /\ (SearchEnded /\ dj.endNodeId \in dj.visited) =>
          /\ dj.pc # "failed"
          /\ WellFormedPath(dj, dj.path)
          /\ ~FallbackTaken(dj.graph, dj.path)
    /\ (SearchEnded /\ dj.pc = "failed") => dj.error # ReconstructionFailed

\* a path of three or more nodes was reconstructed after a node's previous
\* node had been replaced by a better one
C25_Witness ==
    /\ dj.pc = "done"
    /\ Len(dj.path) >= 3
    /\ \E e \in Range(dj.graph.edges) :
          /\ e.from = dj.startNodeId
          /\ e.to = dj.endNodeId
          /\ dj.previous[dj.endNodeId] # dj.startNodeId

\* source and destination have the same nearest node
SameNode == SearchEnded /\ dj.startNodeId = dj.endNodeId

\* C26: when the source and the destination snap to the same graph node the
\* search succeeds with a node path of exactly one node, the output path is
\* the caller's source followed by the caller's destination, totalWeight is
\* 0 and duration is 0.
C26_SameNodeGivesTwoPointPath ==
    SameNode =>
      /\ dj.pc # "failed"
      /\ dj.path = <<dj.startNodeId>>
      /\ dj.totalWeight = 0
      /\ dj.pc = "done" =>
            /\ dj.coordinatePath = <<dj.source, dj.destination>>
            /\ dj.duration = 0
            /\ dj.nodeCount = 1

\* two endpoints 110 units apart were both snapped to the last node of a
\* road network of three or more nodes and answered with a route
C26_Witness ==
    /\ dj.pc = "done"
    /\ SameNode
    /\ dj.source # dj.destination
    /\ Len(dj.graph.nodes) >= 3
    /\ Len(dj.graph.edges) >= 4
    /\ dj.iterations = 1

\* the least weight of the edges of the node's list that lead to the next
\* node
MinWeightBetween(graph, nodeId, nextNodeId) ==
    LET W == {e.weight : e \in EdgesBetween(graph, nodeId, nextNodeId)}
    IN CHOOSE w \in W : \A v \in W : w <= v

\* C28: for each pair of consecutive nodes of the returned node path, the
\* edge the time estimate uses (the first edge of the node's list that
\* leads to the next node) is an edge of least weight among the edges
\* between the two, the weight the search counted in totalWeight.
C28_TimeEstimateUsesCountedEdge ==
    dj.pc = "done" =>
      \A i \in 1..(Len(dj.path) - 1) :
         LET node   == Get(dj.graph.nodes, dj.path[i])
             edgeId == FirstEdgeTo(dj.graph, node.edges, dj.path[i + 1])
         IN /\ edgeId # -1
            /\ Get(dj.graph.edges, edgeId).weight
                  = MinWeightBetween(dj.graph, dj.path[i], dj.path[i + 1])

-----------------------------------------------------------------------------
(* The graph invariants of the data model, on the graph buildGraph returns *)

Built == bpc = "built"

EdgeSet == Range(gs.edges)

NodeIds == {gs.nodes[i].id : i \in 1..Len(gs.nodes)}

\* C1: in the graph buildGraph returns, every edge's from and to is the id of
\* a node present in the node table (no edge refers to a node the merge
\* pass deleted).
C1_EdgeEndpointsInNodeTable ==
    Built => \A e \in EdgeSet : e.from \in NodeIds /\ e.to \in NodeIds

\* C2: the graph buildGraph returns holds at most one edge for each ordered
\* pair (from, to), also when the merge pass finds no cluster.
C2_OneEdgePerOrderedPair ==
    Built => \A e1, e2 \in EdgeSet :
               (e1.from = e2.from /\ e1.to = e2.to) => e1.id = e2.id

\* C4: in the graph buildGraph returns, every node of the node table is the
\* from or the to of at least one edge (no orphan nodes).
C4_NoOrphanNodes ==
    Built => \A n \in NodeIds : \E e \in EdgeSet : e.from = n \/ e.to = n

\* C5: in the graph buildGraph returns, the edge-id list of node e.from
\* contains e's id for every edge e, and every id in a node's edge-id list
\* names an edge of the edge table whose from is that node.
C5_EdgeListsMatchEdgeTable ==
    Built =>
      /\ \A e \in EdgeSet :
            /\ Has(gs.nodes, e.from)
            /\ Includes(Get(gs.nodes, e.from).edges, e.id)
      /\ \A i \in 1..Len(gs.nodes) : \A id \in Range(gs.nodes[i].edges) :
            /\ Has(gs.edges, id)
            /\ Get(gs.edges, id).from = gs.nodes[i].id

\* a returned graph in which a merge deleted nodes and edges survived it
C5_Witness ==
    /\ Built
    /\ gs.nodeIdCounter > Len(gs.nodes)
    /\ Len(gs.nodes) >= 2
    /\ Len(gs.edges) >= 2
    /\ 2 * gs.edgeIdCounter > Len(gs.edges)

\* C6: in the graph buildGraph returns no edge has from equal to to.
C6_NoSelfLoops ==
    Built => \A e \in EdgeSet : e.from # e.to

\* a returned graph in which a segment was skipped at ingestion (two points
\* of one way snapped to one node) and a merge turned a created pair of
\* edges into self-loops, so that neither edge of the pair is left
C6_Witness ==
    /\ Built
    /\ \E w \in Range(osmData) : \E i \in 1..(Len(w.geometry) - 1) :
          /\ w.geometry[i] # w.geometry[i + 1]
          /\ calculateDistance(w.geometry[i], w.geometry[i + 1])
                < INTERSECTION_TOLERANCE
    /\ gs.nodeIdCounter > Len(gs.nodes)
    /\ \E k \in 0..(gs.edgeIdCounter - 1) :
          ~Has(gs.edges, ForwardId(k)) /\ ~Has(gs.edges, BackwardId(k))

\* C14: buildGraph returns a fresh graph on every call: once a call has
\* returned its graph, a later call, also one on the same GraphService, does
\* not change the node table or the edge table of that graph.
C14_BuildReturnsFreshGraph ==
    [][Built => (gs'.nodes = gs.nodes /\ gs'.edges = gs.edges)]_vars

\* the merge of the first cluster of the list runs in this step
MergeStep ==
    /\ bpc = "mergeClusters"
    /\ nodesToMerge # <<>>
    /\ nodesToMerge' = Tail(nodesToMerge)

\* C18: the merge of a cluster rewrites every edge incident to a member,
\* those leaving a member and those arriving at one from outside the
\* cluster: afterwards no edge names a non-representative member, and
\* every edge that pointed at one points at the representative.
C18_MergeRewritesIncidentEdges ==
    [][MergeStep =>
         LET cluster == Head(nodesToMerge)
             others  == Range(Tail(cluster))
         IN /\ \A e \in Range(gs'.edges) :
                 e.from \notin others /\ e.to \notin others
            /\ \A e \in Range(gs.edges) : \A f \in Range(gs'.edges) :
                 (f.id = e.id /\ e.to \in others) => f.to = cluster[1]]_vars

\* the canonical order: ingest every way, merge every cluster, then one
\* cleanup pass
RECURSIVE MergeClusterTables(_, _)
MergeClusterTables(st, clusters) ==
    IF clusters = <<>> THEN st
    ELSE MergeClusterTables(mergeNodeClusterTables(st, Head(clusters)),
                            Tail(clusters))

CanonicalBuild(elements) ==
    LET ingested == ProcessWays(NewGraphService, elements)
        merged   == MergeClusterTables(ingested,
                                       FindClusters(ingested.nodes, 1, {}, <<>>))
        cleaned  == removeDuplicateEdges(merged)
    IN [nodes |-> cleaned.nodes, edges |-> cleaned.edges]

\* C19: the graph the builder returns equals the graph of the canonical
\* order, in which the cleanup pass runs exactly once after all merges.
C19_BuildEqualsCanonicalOrder ==
    Built => [nodes |-> gs.nodes, edges |-> gs.edges] = CanonicalBuild(osmData)

\* every edge has an edge back with the same distance, road class and
\* weight
Symmetric(graph) ==
    \A e \in Range(graph.edges) : \E f \in Range(graph.edges) :
       /\ f.from = e.to
       /\ f.to = e.from
       /\ f.distance = e.distance
       /\ f.roadType = e.roadType
       /\ f.weight = e.weight

\* C27: every graph buildGraph returns is symmetric, also after the merge of
\* intersections and the cleanup: every edge u->v has an edge v->u of the
\* same distance, road class and weight, so that a route from a node to
\* another exists exactly when one exists back, of the same least weight.
C27_ReturnedGraphIsSymmetric ==
    Built =>
      LET graph == [nodes |-> gs.nodes, edges |-> gs.edges] IN
      /\ Symmetric(graph)
      /\ \A a, b \in NodeIds :
            MinPathWeight(graph, a, b) = MinPathWeight(graph, b, a)

-----------------------------------------------------------------------------
(* Way ingestion: which node a geometry point is given *)

\* the ingestion runs or has ended, and the merge pass has merged nothing
Ingesting == bpc \in {"processWays", "mergeClusters"}

\* the service just before point i of way k is looked up
IngestedBefore(elements, k, i) ==
    WalkGeometry(ProcessWays(NewGraphService, SubSeq(elements, 1, k - 1)),
                 SubSeq(elements[k].geometry, 1, i - 1), -1, elements[k].highway)

\* the node id point i of way k is given
NodeOfPoint(elements, k, i) ==
    findOrCreateNode(IngestedBefore(elements, k, i), elements[k].geometry[i]).nodeId

WithinTolerance(lat1, lat2) == calculateDistance(lat1, lat2) < INTERSECTION_TOLERANCE

\* any two distinct nodes of the table are at least the tolerance apart
NodesApart ==
    \A i, j \in 1..Len(gs.nodes) :
       i # j => ~WithinTolerance(gs.nodes[i].lat, gs.nodes[j].lat)

\* a point within the tolerance of a node of the table is given the id of
\* such a node and the table stays as it is; any other point gets a new node
PointsReuseNearbyNode ==
    \A k \in 1..Len(osmData) : \A i \in 1..Len(osmData[k].geometry) :
       LET st   == IngestedBefore(osmData, k, i)
           p    == osmData[k].geometry[i]
           near == {n \in Range(st.nodes) : WithinTolerance(p, n.lat)}
           r    == findOrCreateNode(st, p)
       IN IF near # {}
          THEN r.nodeId \in {n.id : n \in near} /\ r.st.nodes = st.nodes
          ELSE /\ ~Has(st.nodes, r.nodeId)
               /\ Len(r.st.nodes) = Len(st.nodes) + 1
               /\ Get(r.st.nodes, r.nodeId).lat = p

\* a way whose first point is within the tolerance of the first point of
\* the first way of the list shares the first way's first node
SharesWithFirstWay ==
    \A k \in 2..Len(osmData) :
       WithinTolerance(osmData[1].geometry[1], osmData[k].geometry[1])
          => NodeOfPoint(osmData, k, 1) = NodeOfPoint(osmData, 1, 1)

\* a way whose first point is within the tolerance of the first point of
\* any other way shares that way's first node
SharesWithAnyWay ==
    \A j, k \in 1..Len(osmData) :
       (j # k /\ WithinTolerance(osmData[j].geometry[1], osmData[k].geometry[1]))
          => NodeOfPoint(osmData, k, 1) = NodeOfPoint(osmData, j, 1)

\* C23 as stated: during ingestion a point within INTERSECTION_TOLERANCE of
\* an existing node reuses that node's id, after ingestion and before the
\* merge pass any two distinct nodes are at least the tolerance apart, and
\* a way whose first point is within the tolerance of another way's first
\* point shares that node with it.
C23_NearFirstPointsShareNode ==
    Ingesting => (PointsReuseNearbyNode /\ NodesApart /\ SharesWithAnyWay)

\* C23, amended: as stated, except that a way is sure to share the first
\* node of another way only when that way is the first of the list; in
\* general it is given a node within the tolerance of its own first point.
C23_IngestionReusesNearbyNode ==
    Ingesting => (PointsReuseNearbyNode /\ NodesApart /\ SharesWithFirstWay)

\* ingestion has ended on two ways whose first points differ and lie within
\* the tolerance: they share their first node, 3 nodes and 4 edges in all
C23_Witness ==
    /\ bpc = "mergeClusters"
    /\ Len(osmData) = 2
    /\ osmData[1].geometry[1] # osmData[2].geometry[1]
    /\ WithinTolerance(osmData[1].geometry[1], osmData[2].geometry[1])
    /\ NodeOfPoint(osmData, 2, 1) = NodeOfPoint(osmData, 1, 1)
    /\ Len(gs.nodes) = 3
    /\ Len(gs.edges) = 4

-----------------------------------------------------------------------------
(* The graph cache, under concurrent requests *)

\* the fetch of a request has completed successfully: the upstream answered
\* with a non-empty list of ways
FetchSucceeded(response) == response.kind = "ok" /\ response.elements # <<>>

FetchFailed(response) == response.kind # "none" /\ ~FetchSucceeded(response)

\* the graph buildGraph returns for each way list the upstream may answer
CompleteBuilds == [elements \in UpstreamElements |-> buildGraph(elements)]

\* request r fetched successfully and the graph it holds is the complete
\* build of the ways it fetched
HoldsCompleteBuild(r) ==
    /\ ~rq[r].hit
    /\ rq[r].graph \in 1..Len(heap)
    /\ FetchSucceeded(rq[r].response)
    /\ rq[r].response.elements \in UpstreamElements
    /\ GraphAt(heap, rq[r].graph) = CompleteBuilds[rq[r].response.elements]

CachedGraphsComplete ==
    \A i \in 1..Len(graphCache) :
       \E r \in Requests :
          /\ rq[r].graph = graphCache[i].graph
          /\ rq[r].pc \in {"search", "respond", "done"}
          /\ HoldsCompleteBuild(r)

InsertOnlyAfterBuild ==
    graphCache' # graphCache =>
       \E r \in Requests :
          /\ running = r
          /\ rq[r].pc = "insert"
          /\ HoldsCompleteBuild(r)
          /\ Has(graphCache', rq[r].cacheKey)
          /\ Get(graphCache', rq[r].cacheKey).graph = rq[r].graph

FailedFetchLeavesCache ==
    \A r \in Requests :
       (FetchFailed(rq'[r].response) /\ (running = r \/ running' = r))
          => graphCache' = graphCache

\* C9: a cache insert happens only after a fetch and a build have both
\* completed successfully: every graph in the cache is a completely built
\* graph, and a request whose fetch fails leaves the cache as it was.
C9_InsertOnlyAfterSuccessfulBuild ==
    /\ []CachedGraphsComplete
    /\ [][InsertOnlyAfterBuild /\ FailedFetchLeavesCache]_vars

\* a request whose fetch failed has been answered while the graph another
\* request built sits in the cache
C9_Witness ==
    \E r1, r2 \in Requests :
       /\ rq[r1].pc = "done"
       /\ FetchFailed(rq[r1].response)
       /\ rq[r2].pc = "done"
       /\ HoldsCompleteBuild(r2)
       /\ Len(graphCache) = 1
       /\ graphCache[1].graph = rq[r2].graph

\* C10: a request whose key matches a cache entry younger than the timeout
\* is given the very graph object that the earlier miss stored under the
\* key: no graph object is created, and the object is the one the request
\* that missed built and inserted.
C10_HitReturnsStoredObject ==
    [][\A r \in Requests :
         LET cacheKey == createCacheKey(rq[r].source, rq[r].destination) IN
         (/\ rq[r].pc = "probe"
          /\ rq'[r].pc # "probe"
          /\ Has(graphCache, cacheKey)
          /\ clock - Get(graphCache, cacheKey).timestamp < cacheTimeout)
         => /\ rq'[r].pc = "search"
            /\ rq'[r].graph = Get(graphCache, cacheKey).graph
            /\ heap' = heap
            /\ upstream' = upstream
            /\ \E q \in Requests \ {r} :
                 /\ ~rq[q].hit
                 /\ rq[q].cacheKey = cacheKey
                 /\ rq[q].graph = rq'[r].graph
                 /\ rq[q].pc \in {"search", "respond", "done"}]_vars

\* a request served from the cache, one millisecond before the entry
\* expires, has been answered with a route
C10_Witness ==
    \E r \in Requests :
       /\ rq[r].pc = "done"
       /\ rq[r].hit
       /\ rq[r].status = 200
       /\ Has(graphCache, rq[r].cacheKey)
       /\ clock - Get(graphCache, rq[r].cacheKey).timestamp = cacheTimeout - 1

-----------------------------------------------------------------------------
(* Cache keys, freshness and the immutability of cached graphs *)

\* the upstream requests a request has issued
FetchesOf(request) ==
    IF request.pc = "fetching" \/ request.response.kind # "none" THEN 1 ELSE 0

\* the bounding box of two endpoints at 0.01 degree: floor of the least
\* side, ceiling of the greatest
QuantizedBox(source, destination) ==
    <<Floor(Min2(source, destination), KeyCell),
      Ceil(Max2(source, destination), KeyCell)>>

\* request q missed, built a graph and has inserted it
Inserted(q) ==
    /\ ~rq[q].hit
    /\ rq[q].pc \in {"search", "respond", "done"}
    /\ rq[q].graph # 0

\* request r runs the cache probe of getOrBuildGraph in this step
ProbeStep(r) == rq[r].pc = "probe" /\ rq'[r].pc # "probe"

\* the slot of the key holds an entry younger than the timeout
YoungEntry(cache, cacheKey, now) ==
    /\ Has(cache, cacheKey)
    /\ now - Get(cache, cacheKey).timestamp < cacheTimeout

SecondRequestFetchesNothing ==
    \A q, r \in Requests :
       (/\ q # r
        /\ ProbeStep(r)
        /\ rq[q].pc = "done"
        /\ Inserted(q)
        /\ QuantizedBox(rq[q].source, rq[q].destination)
              = QuantizedBox(rq[r].source, rq[r].destination)
        /\ Has(graphCache, rq[q].cacheKey)
        /\ Get(graphCache, rq[q].cacheKey).graph = rq[q].graph
        /\ clock - Get(graphCache, rq[q].cacheKey).timestamp < cacheTimeout)
       => /\ rq'[r].hit
          /\ rq'[r].pc = "search"
          /\ upstream' = upstream
          /\ FetchesOf(rq[q]) + FetchesOf(rq'[r]) = 1

HitsFetchNothing ==
    /\ \A r \in Requests : rq[r].hit => FetchesOf(rq[r]) = 0
    /\ upstream = Cardinality({r \in Requests : FetchesOf(rq[r]) = 1})

\* C11: two sequential valid requests whose endpoints quantize to the same
\* box, the second probing less than the timeout after the first inserted
\* its graph, issue exactly one upstream fetch: the second issues none,
\* then or later.
C11_SameBoxOneFetch ==
    /\ []HitsFetchNothing
    /\ [][SecondRequestFetchesNothing]_vars

\* two answered requests with swapped endpoints: the first fetched and
\* inserted, the second was served the first's graph, one fetch in all
C11_Witness ==
    \E q, r \in Requests :
       /\ q < r
       /\ rq[q].pc = "done" /\ rq[r].pc = "done"
       /\ Inserted(q)
       /\ rq[r].hit
       /\ rq[r].source = rq[q].destination /\ rq[r].source # rq[q].source
       /\ rq[r].graph = rq[q].graph
       /\ upstream = 1

ReuseOnlyWhenYoung ==
    \A r \in Requests :
       ProbeStep(r) =>
          LET cacheKey == createCacheKey(rq[r].source, rq[r].destination) IN
          IF YoungEntry(graphCache, cacheKey, clock)
          THEN rq'[r].hit /\ rq'[r].graph = Get(graphCache, cacheKey).graph
          ELSE /\ ~rq'[r].hit
               /\ rq'[r].graph = 0
               /\ rq'[r].pc = "fetching"
               /\ upstream' = upstream + 1

MissOverwritesSlot ==
    \A r \in Requests :
       (rq[r].pc = "insert" /\ rq'[r].pc # "insert") =>
          /\ Has(graphCache', rq[r].cacheKey)
          /\ Get(graphCache', rq[r].cacheKey)
                = [id |-> rq[r].cacheKey, graph |-> rq[r].graph, timestamp |-> clock]
          /\ rq[r].graph \notin {graphCache[i].graph : i \in 1..Len(graphCache)}

StaleGraphNeverReturned ==
    \A r \in Requests :
       (~rq[r].hit /\ rq[r].cached.found) =>
          /\ rq[r].graph # rq[r].cached.graph
          /\ rq[r].searched # rq[r].cached.graph

\* C12: a cached graph is reused only when its age is strictly less than
\* the timeout; a request that finds no entry, or one aged the timeout or
\* more, never gets that entry's graph: it fetches, builds and overwrites
\* the slot with its new graph and the current time.
C12_ReuseOnlyWhenYoung ==
    /\ []StaleGraphNeverReturned
    /\ [][ReuseOnlyWhenYoung /\ MissOverwritesSlot]_vars

\* a request that found an entry aged exactly the timeout has fetched,
\* built and overwritten the slot
C12_Witness ==
    \E r \in Requests :
       /\ rq[r].pc = "done"
       /\ ~rq[r].hit
       /\ rq[r].cached.found
       /\ rq[r].status = 200
       /\ Has(graphCache, rq[r].cacheKey)
       /\ Get(graphCache, rq[r].cacheKey).graph = rq[r].graph
       /\ Get(graphCache, rq[r].cacheKey).timestamp
             = rq[r].cached.timestamp + cacheTimeout

\* the graph objects that have been inserted into the cache
InsertedGraphs ==
    {rq[r].graph : r \in {q \in Requests : Inserted(q)}}
    \cup {graphCache[i].graph : i \in 1..Len(graphCache)}

\* C13: once a graph has been inserted into the cache, nothing that happens
\* afterwards (a search that reads it, a later build for any key, a cache
\* sweep) changes its node table or its edge table.
C13_CachedGraphsImmutable ==
    [][\A ref \in InsertedGraphs :
          /\ ref \in 1..Len(heap')
          /\ heap'[ref].nodes = heap[ref].nodes
          /\ heap'[ref].edges = heap[ref].edges]_vars

\* a graph was inserted and searched, and later a second graph was built
\* for the same key, inserted and searched
C13_Witness ==
    \E q, r \in Requests :
       /\ rq[q].pc = "done" /\ rq[r].pc = "done"
       /\ Inserted(q) /\ Inserted(r)
       /\ rq[q].graph < rq[r].graph
       /\ rq[q].cacheKey = rq[r].cacheKey
       /\ rq[q].searched = rq[q].graph /\ rq[r].searched = rq[r].graph
       /\ heap[rq[q].graph].nodes # <<>>

-----------------------------------------------------------------------------
(* Rejected requests and surfaced errors *)

\* a body calculateRoute must reject: an endpoint missing, a latitude
\* outside [-90, 90] degrees, a longitude outside [-180, 180] degrees, or
\* endpoints less than 0.01 km apart
InvalidBody(body) ==
    \/ body[1].missing \/ body[2].missing
    \/ \E i \in 1..2 : body[i].lat < -MaxLatitude \/ body[i].lat > MaxLatitude
    \/ \E i \in 1..2 : body[i].lng < -MaxLongitude \/ body[i].lng > MaxLongitude
    \/ calculateDistance(body[1].lat, body[2].lat) < MinRouteDistance

InvalidIsRejected ==
    \A r \in Requests :
       (rq[r].pc # "idle" /\ InvalidBody(rq[r].body)) =>
          /\ rq[r].pc \in {"validate", "respond", "done"}
          /\ rq[r].pc \in {"respond", "done"} => rq[r].status = 400
          /\ FetchesOf(rq[r]) = 0
          /\ rq[r].graph = 0

RejectionTouchesNothing ==
    \A r \in Requests :
       ((running = r \/ running' = r) /\ InvalidBody(rq'[r].body)
          /\ rq'[r].pc # "idle") =>
          /\ graphCache' = graphCache
          /\ upstream' = upstream
          /\ heap' = heap

\* C15: calculateRoute answers 400 whenever an endpoint is missing, a
\* latitude or longitude is out of range, or the endpoints are less than
\* 0.01 km apart; such a request issues no upstream request and leaves the
\* cache unchanged.
C15_InvalidCoordinatesRejected ==
    /\ []InvalidIsRejected
    /\ [][RejectionTouchesNothing]_vars

\* a request without destination was answered 400 while the cache holds
\* the graph of the one request that fetched
C15_Witness ==
    \E q, r \in Requests :
       /\ rq[r].pc = "done"
       /\ rq[r].body[2].missing
       /\ rq[r].status = 400
       /\ q < r
       /\ Inserted(q)
       /\ upstream = 1
       /\ Len(graphCache) = 1
       /\ graphCache[1].graph = rq[q].graph

\* C16: an upstream answer of HTTP 429 or HTTP 5xx is surfaced as 'service
\* unavailable' (503), which is not the 'internal error' (500) of a response
\* of bad shape.
C16_UpstreamFailureIsServiceUnavailable ==
    \A r \in Requests :
       (rq[r].pc = "done" /\ rq[r].response.kind = "status") =>
          /\ rq[r].status = 503
          /\ rq[r].status # ErrorStatus(FailedToFetch(CannotReadElements))

-----------------------------------------------------------------------------
(* Concurrent misses on one key *)

\* a request that missed holds a graph of its own, built from the ways it
\* fetched itself, and searches that graph
MissesBuildTheirOwn ==
    \A r \in Requests :
       (~rq[r].hit /\ rq[r].graph # 0) =>
          /\ FetchesOf(rq[r]) = 1
          /\ \A q \in Requests \ {r} : ~rq[q].hit => rq[q].graph # rq[r].graph
          /\ rq[r].searched \in {0, rq[r].graph}
          /\ Inserted(r) => HoldsCompleteBuild(r)

\* graph objects are numbered in the order of their builds, and a build
\* runs to its insert without interruption: the slot holds the graph of
\* the latest insert under its key
SlotHoldsLastInsert ==
    \A i \in 1..Len(graphCache) :
       \A r \in Requests :
          (Inserted(r) /\ rq[r].cacheKey = graphCache[i].id) =>
             rq[r].graph <= graphCache[i].graph

LastWriterWins ==
    \A q, r \in Requests :
       (/\ q # r
        /\ rq[r].pc = "insert" /\ rq'[r].pc # "insert"
        /\ Inserted(q)
        /\ rq[q].cacheKey = rq[r].cacheKey
        /\ ~rq[r].cached.found)
       => Get(graphCache', rq[r].cacheKey)
             = [id |-> rq[r].cacheKey, graph |-> rq[r].graph, timestamp |-> clock]

\* C20: two requests that miss on one key concurrently each fetch and build
\* for themselves and search the graph they built themselves; once both
\* have inserted, the slot holds the graph and the timestamp of the one
\* whose insert ran last.
C20_ConcurrentMissesLastWriterWins ==
    /\ [](MissesBuildTheirOwn /\ SlotHoldsLastInsert)
    /\ [][LastWriterWins]_vars

\* two requests on one key were both answered from graphs of their own
\* before the timeout could pass: neither found an entry, and the slot
\* holds the graph of the later insert
C20_Witness ==
    \E q, r \in Requests :
       /\ rq[q].pc = "done" /\ rq[r].pc = "done"
       /\ Inserted(q) /\ Inserted(r)
       /\ rq[q].cacheKey = rq[r].cacheKey
       /\ ~rq[q].cached.found /\ ~rq[r].cached.found
       /\ clock < cacheTimeout
       /\ rq[q].graph < rq[r].graph
       /\ rq[q].searched = rq[q].graph /\ rq[r].searched = rq[r].graph
       /\ Get(graphCache, rq[r].cacheKey).graph = rq[r].graph

-----------------------------------------------------------------------------
(* The fetched area and the area of the cache key *)

\* the point lies inside the box
InBox(box, point) ==
    /\ box.south <= point.lat /\ point.lat <= box.north
    /\ box.west <= point.lng /\ point.lng <= box.east

\* the box contains the whole quantized box of the key
BoxCoversKey(box, cacheKey) ==
    /\ box.south <= cacheKey[1] /\ cacheKey[3] <= box.north
    /\ box.west <= cacheKey[2] /\ cacheKey[4] <= box.east

\* C29: whenever a request is served from the cache, the padded box that
\* was fetched for the cached graph, the box of the request that created
\* the entry padded by 0.01 degree on each side, contains the whole
\* quantized box of the cache key and so both endpoints of the request.
C29_ServedEndpointsInsideFetchedBox ==
    /\ \A q \in Requests :
          rq[q].bbox # NoBox => BoxCoversKey(rq[q].bbox, rq[q].cacheKey)
    /\ \A r \in Requests :
          rq[r].hit =>
             \E q \in Requests \ {r} :
                /\ Inserted(q)
                /\ rq[q].graph = rq[r].graph
                /\ rq[q].cacheKey = rq[r].cacheKey
                /\ InBox(rq[q].bbox, rq[r].body[1])
                /\ InBox(rq[q].bbox, rq[r].body[2])

\* a request was served the graph of a request whose own endpoints both
\* lie south of the served request's source, which only the padding of the
\* fetched box reaches
C29_Witness ==
    \E q, r \in Requests :
       /\ rq[r].pc = "done"
       /\ rq[r].hit
       /\ Inserted(q)
       /\ rq[q].graph = rq[r].graph
       /\ rq[r].source > Max2(rq[q].source, rq[q].destination)
       /\ rq[r].source > rq[q].bbox.north - Padding
       /\ rq[r].source <= rq[q].bbox.north

-----------------------------------------------------------------------------
(* The sweep of the cache *)

\* request r runs graphCache.set and cleanCache in this step
InsertStep(r) == rq[r].pc = "insert" /\ rq'[r].pc # "insert"

\* C22: after every cache insert has completed its sweep the cache holds no
\* entry older than the timeout: every entry aged 600 s or more, which can
\* no longer be served as a hit, has been removed.
C22_SweepRemovesUnservableEntries ==
    [][\A r \in Requests :
         InsertStep(r) =>
            \A i \in 1..Len(graphCache') :
               clock' - graphCache'[i].timestamp < cacheTimeout]_vars

-----------------------------------------------------------------------------
(* The order of the stages of one request *)

\* the stage a request may enter from each stage
StageSuccessors ==
    {<<"idle", "validate">>, <<"validate", "probe">>, <<"validate", "respond">>,
     <<"probe", "search">>, <<"probe", "fetching">>,
     <<"fetching", "build">>, <<"fetching", "respond">>,
     <<"build", "merge">>, <<"merge", "insert">>, <<"insert", "search">>,
     <<"search", "respond">>, <<"respond", "done">>}

\* the graphs buildGraph returns, fully built
CompleteGraphs == {CompleteBuilds[elements] : elements \in UpstreamElements}

StagesInOrder ==
    \A r \in Requests :
       rq'[r].pc # rq[r].pc =>
          /\ <<rq[r].pc, rq'[r].pc>> \in StageSuccessors
          /\ (rq[r].pc = "probe" /\ rq'[r].pc = "search") => rq'[r].hit
          /\ rq'[r].pc = "fetching" => (~rq'[r].hit /\ upstream' = upstream + 1)
          /\ rq'[r].pc # "fetching" => upstream' = upstream
          /\ rq[r].pc # "insert" => graphCache' = graphCache

StagesComplete ==
    \A r \in Requests :
       /\ rq[r].pc \in {"build", "merge", "insert"} =>
             (~rq[r].hit /\ FetchSucceeded(rq[r].response) /\ rq[r].searched = 0)
       /\ rq[r].pc = "search" =>
             /\ rq[r].graph \in 1..Len(heap)
             /\ GraphAt(heap, rq[r].graph) \in CompleteGraphs
             /\ rq[r].searched = 0
             /\ rq[r].status = 0
             /\ ~rq[r].hit =>
                   /\ HoldsCompleteBuild(r)
                   /\ Has(graphCache, rq[r].cacheKey)
                   /\ Get(graphCache, rq[r].cacheKey).graph = rq[r].graph
       /\ rq[r].searched # 0 =>
             (rq[r].pc \in {"respond", "done"} /\ rq[r].searched = rq[r].graph)
       /\ rq[r].pc \in {"respond", "done"} =>
             /\ rq[r].status # 0
             /\ rq[r].graph # 0 => rq[r].searched = rq[r].graph
             /\ rq[r].status = 200 => (rq[r].searched # 0 /\ rq[r].result.ok)

\* C21: within one request the stages run in the order cache probe, then on
\* a miss only upstream fetch, graph build and cache insert, then search,
\* then response; the search never starts before the graph is fully built
\* and no response is sent before the search has ended.
C21_StagesRunInOrder ==
    /\ []StagesComplete
    /\ [][StagesInOrder]_vars

\* a request that went through fetch, build, insert and search and a
\* request that went from the probe to the search have both been answered
C21_Witness ==
    \E q, r \in Requests :
       /\ rq[q].pc = "done" /\ rq[r].pc = "done"
       /\ ~rq[q].hit /\ rq[q].status = 200 /\ rq[q].result.ok
       /\ rq[q].searched = rq[q].graph
       /\ rq[r].hit /\ rq[r].searched = rq[q].graph
       /\ FetchesOf(rq[r]) = 0
       /\ heap[rq[q].graph].nodeIdCounter > Len(heap[rq[q].graph].nodes)

-----------------------------------------------------------------------------
(* Request-local graphs and searches *)

\* request r runs findShortestPath in this step
SearchStep(r) == rq[r].pc = "search" /\ rq'[r].pc # "search"

\* the search of a request is one uninterrupted step on the graph the
\* request holds: it changes no graph and no other request
SearchOnOwnGraph ==
    \A r \in Requests :
       SearchStep(r) =>
          /\ running = r /\ running' = r
          /\ heap' = heap
          /\ dj' = dj
          /\ rq'[r].searched = rq[r].graph
          /\ rq'[r].result =
                ResultOf(findShortestPath(GraphAt(heap, rq[r].graph),
                                          rq[r].source, rq[r].destination))
          /\ \A q \in Requests \ {r} : rq'[q] = rq[q]

\* a request that holds its graph and has not searched yet is the running
\* task: nothing runs between the receipt of the graph and the search
NoSuspensionBeforeSearch ==
    \A r \in Requests : rq[r].pc = "search" => running = r

\* the graph of a request is the one it was served from the cache or one
\* that no other request built
OneGraphPerRequest ==
    \A r \in Requests :
       rq[r].graph # 0 =>
          /\ rq[r].hit => (rq[r].cached.found /\ rq[r].graph = rq[r].cached.graph)
          /\ ~rq[r].hit =>
                \A q \in Requests \ {r} : ~rq[q].hit => rq[q].graph # rq[r].graph
          /\ rq[r].searched \in {0, rq[r].graph}

\* C30: in every interleaving of concurrent requests the search result of a
\* request is computed entirely on the one graph the request obtained from
\* the cache or built itself; no builder, search engine or graph field is
\* shared between two requests, and the search runs without a suspension
\* point between the receipt of its graph and its result.
C30_SearchRunsOnRequestsOwnGraph ==
    /\ [](NoSuspensionBeforeSearch /\ OneGraphPerRequest)
    /\ [][SearchOnOwnGraph]_vars

\* of two requests for different areas the one that arrived second built
\* its graph first, and each was answered a route found on its own graph
C30_Witness ==
    \E q, r \in Requests :
       /\ q < r
       /\ rq[q].pc = "done" /\ rq[r].pc = "done"
       /\ ~rq[q].hit /\ ~rq[r].hit
       /\ rq[q].cacheKey # rq[r].cacheKey
       /\ rq[r].graph < rq[q].graph
       /\ rq[q].status = 200 /\ rq[r].status = 200
       /\ rq[q].searched = rq[q].graph /\ rq[r].searched = rq[r].graph
       /\ rq[q].result.ok /\ rq[r].result.ok

====
